---- MODULE Spec2Model ----
(***************************************************************************)
(* Model of grammers-client/src/types/entity_set.rs: the hashable Peer key, *)
(* the EntitySet snapshot (new / empty / get) and the EntityCache           *)
(* (new / self_id / is_self_bot / contains / get_input).                    *)
(*                                                                          *)
(* The two objects are independent of each other, so a behaviour follows    *)
(* the life of one of them: `obj` says which.                               *)
(***************************************************************************)
EXTENDS Integers, Sequences, FiniteSets, TLC

VARIABLES obj, pc, in_users, in_chats, map, users, channels, self_id, self_bot,
          call, ret, hist

vars == <<obj, pc, in_users, in_chats, map, users, channels, self_id, self_bot,
          call, ret, hist>>

setVars == <<in_users, in_chats, map>>
cacheVars == <<users, channels, self_id, self_bot>>

(* ------------------------------ bounds -------------------------------- *)
MaxId == 2
MaxLen == 2

Ids == 1..MaxId

(* Two access hashes, enough to tell one recorded hash from another. *)
Hashes == {101, 202}

(* The fields of a record other than its id, taken as one opaque value. *)
Data == {"a", "b"}

(* ------------------------- Option<T> and results ----------------------- *)
None == [some |-> FALSE]
Some(v) == [some |-> TRUE, val |-> v]

RetBool(b) == [t |-> "bool", v |-> b]
RetI32(n) == [t |-> "i32", v |-> n]
RetOpt(o) == [t |-> "option", v |-> o]
RetUnit == [t |-> "unit"]
RetPanic == [t |-> "panic", msg |-> "tried to query self_id before it's known"]

(* --------------------------- tl::enums::Peer --------------------------- *)
PeerUser(n) == [peer |-> "User", user_id |-> n]
PeerChat(n) == [peer |-> "Chat", chat_id |-> n]
PeerChannel(n) == [peer |-> "Channel", channel_id |-> n]

TlPeers == {PeerUser(n) : n \in Ids} \cup {PeerChat(n) : n \in Ids}
             \cup {PeerChannel(n) : n \in Ids}

(* The hashable Peer: a kind and an id; equality is derived on both. *)
Peer(kind, n) == <<kind, n>>

PeerFrom(p) ==
  CASE p.peer = "User" -> Peer("User", p.user_id)
    [] p.peer = "Chat" -> Peer("Chat", p.chat_id)
    [] p.peer = "Channel" -> Peer("Channel", p.channel_id)

(* ------------------- tl::enums::User / tl::enums::Chat ------------------ *)
UserRecords == [tag : {"User"}, id : Ids, data : Data]
                 \cup [tag : {"UserEmpty"}, id : Ids]

ChatRecords == [tag : {"Chat", "Channel"}, id : Ids, data : Data]
                 \cup [tag : {"ChatEmpty", "ChatForbidden", "ChannelForbidden"}, id : Ids]

(* crate::types::Entity: the variant wrapping the record it was made from *)
Entity(variant, rec) == [variant |-> variant, inner |-> rec]

EntityPeer(e) ==
  CASE e.variant = "User" -> PeerUser(e.inner.id)
    [] e.variant = "Chat" -> PeerChat(e.inner.id)
    [] e.variant = "Channel" -> PeerChannel(e.inner.id)

(* --------------------------- HashMap helpers --------------------------- *)
EmptyMap == << >>

Insert(m, k, v) == [x \in (DOMAIN m) \cup {k} |-> IF x = k THEN v ELSE m[x]]

MapGet(m, k) == IF k \in DOMAIN m THEN Some(m[k]) ELSE None

ContainsKey(m, k) == k \in DOMAIN m

(* mutant: collect keeps the first pair of a key instead of the last *)
RECURSIVE CollectFirstWins(_)
CollectFirstWins(pairs) ==
  IF pairs = << >> THEN EmptyMap
  ELSE LET m == CollectFirstWins(SubSeq(pairs, 1, Len(pairs) - 1))
           kv == pairs[Len(pairs)]
       IN IF ContainsKey(m, kv[1]) THEN m ELSE Insert(m, kv[1], kv[2])

(* Iterator::collect into a HashMap: the pairs are inserted in order *)
RECURSIVE Collect(_)
Collect(pairs) ==
  IF pairs = << >> THEN EmptyMap
  ELSE LET kv == pairs[Len(pairs)]
       IN Insert(Collect(SubSeq(pairs, 1, Len(pairs) - 1)), kv[1], kv[2])

(* Iterator::filter_map over a sequence of Option values *)
RECURSIVE FilterMap(_)
FilterMap(opts) ==
  IF opts = << >> THEN << >>
  ELSE LET rest == FilterMap(Tail(opts))
       IN IF Head(opts).some THEN <<Head(opts).val>> \o rest ELSE rest

(* ------------------------------ EntitySet ------------------------------ *)
(* mutant: the placeholder user is kept as an entity *)
UserArmKeepEmpty(user) == Some(Entity("User", user))

UserArm(user) ==
  CASE user.tag = "User" -> Some(Entity("User", user))
    [] user.tag = "UserEmpty" -> None

ChatArm(chat) ==
  CASE chat.tag = "ChatEmpty" -> None
    [] chat.tag = "Chat" -> Some(Entity("Chat", chat))
    [] chat.tag = "ChatForbidden" -> None
    [] chat.tag = "Channel" -> Some(Entity("Channel", chat))
    [] chat.tag = "ChannelForbidden" -> None

Entities(us, cs) ==
  FilterMap([i \in 1..Len(us) |-> UserArm(us[i])])
    \o FilterMap([i \in 1..Len(cs) |-> ChatArm(cs[i])])

EntitySetNew(us, cs) ==
  LET es == Entities(us, cs)
  IN Collect([i \in 1..Len(es) |-> <<PeerFrom(EntityPeer(es[i])), es[i]>>])

EntitySetEmpty == EmptyMap

(* get takes &self: the map is the same after the call *)
EntitySetAfterGet(m, peer) == m

EntitySetGet(m, peer) == MapGet(m, PeerFrom(peer))

(* ----------------------------- EntityCache ----------------------------- *)
EntityCacheNew ==
  [users |-> EmptyMap, channels |-> EmptyMap, self_id |-> None, self_bot |-> FALSE]

(* mutant: the stored id is taken out of the Option by the read *)
AfterSelfIdTaken(sid) == None

(* self_id takes &self: the field is the same after the call *)
AfterSelfId(sid) == sid

(* mutant: the hash is removed from its map by the lookup *)
AfterGetInputRemoved(m, peer) ==
  IF peer.peer = "User" THEN [x \in (DOMAIN m) \ {peer.user_id} |-> m[x]] ELSE m

(* get_input takes &self: the users map is the same after the call *)
AfterGetInput(m, peer) == m

(* mutant: an unknown self id is answered with 0 instead of a panic *)
SelfIdOrZero(sid) == IF sid.some THEN RetI32(sid.val) ELSE RetI32(0)

(* Option::expect on the stored self id *)
SelfId(sid) == IF sid.some THEN RetI32(sid.val) ELSE RetPanic

(* mutant: the flag is read negated *)
IsSelfBotNegated(bot) == RetBool(~bot)

IsSelfBot(bot) == RetBool(bot)

(* mutant: the channel arm looks the id up among the users *)
ContainsOneMap(us, chs, peer) ==
  CASE peer.peer = "User" -> ContainsKey(us, peer.user_id)
    [] peer.peer = "Chat" -> TRUE
    [] peer.peer = "Channel" -> ContainsKey(us, peer.channel_id)

(* mutant: a basic group is addressable only once some user is known *)
ContainsChatNeedsUser(us, chs, peer) ==
  CASE peer.peer = "User" -> ContainsKey(us, peer.user_id)
    [] peer.peer = "Chat" -> us # EmptyMap
    [] peer.peer = "Channel" -> ContainsKey(chs, peer.channel_id)

Contains(us, chs, peer) ==
  CASE peer.peer = "User" -> ContainsKey(us, peer.user_id)
    [] peer.peer = "Chat" -> TRUE
    [] peer.peer = "Channel" -> ContainsKey(chs, peer.channel_id)

InputPeerUser(n, h) == [input |-> "InputPeerUser", user_id |-> n, access_hash |-> h]
InputPeerChat(n) == [input |-> "InputPeerChat", chat_id |-> n]
InputPeerChannel(n, h) == [input |-> "InputPeerChannel", channel_id |-> n, access_hash |-> h]

OptMapUser(o, n) == IF o.some THEN Some(InputPeerUser(n, o.val)) ELSE None
OptMapChannel(o, n) == IF o.some THEN Some(InputPeerChannel(n, o.val)) ELSE None

(* mutant: the channel arm reads the hash from the users map *)
GetInputOneMap(us, chs, peer) ==
  CASE peer.peer = "User" -> OptMapUser(MapGet(us, peer.user_id), peer.user_id)
    [] peer.peer = "Chat" -> Some(InputPeerChat(peer.chat_id))
    [] peer.peer = "Channel" -> OptMapChannel(MapGet(us, peer.channel_id), peer.channel_id)

GetInput(us, chs, peer) ==
  CASE peer.peer = "User" -> OptMapUser(MapGet(us, peer.user_id), peer.user_id)
    [] peer.peer = "Chat" -> Some(InputPeerChat(peer.chat_id))
    [] peer.peer = "Channel" -> OptMapChannel(MapGet(chs, peer.channel_id), peer.channel_id)

(* ------------------------------ the state ------------------------------ *)
SeqsUpTo(S, n) == UNION {[1..k -> S] : k \in 0..n}

Inputs ==
  {in \in SeqsUpTo(UserRecords, MaxLen) \X SeqsUpTo(ChatRecords, MaxLen) :
     Len(in[1]) + Len(in[2]) <= MaxLen}

NoHist == [hash |-> EmptyMap, self_set |-> FALSE]

Init ==
  /\ obj \in {"EntityCache", "EntitySet"}
  /\ \E in \in Inputs :
       /\ in_users = (IF obj = "EntitySet" THEN in[1] ELSE << >>)
       /\ in_chats = (IF obj = "EntitySet" THEN in[2] ELSE << >>)
  /\ pc = (IF obj = "EntitySet" THEN "start" ELSE "ready")
  /\ map = EntitySetEmpty
  /\ users = EntityCacheNew.users
  /\ channels = EntityCacheNew.channels
  /\ self_id = EntityCacheNew.self_id
  /\ self_bot = EntityCacheNew.self_bot
  /\ call = [op |-> "init"]
  /\ ret = RetUnit
  /\ hist = NoHist

(* ------------------------- EntitySet operations ------------------------ *)
New ==
  /\ obj = "EntitySet" /\ pc = "start"
  /\ map' = EntitySetNew(in_users, in_chats)
  /\ pc' = "built"
  /\ call' = [op |-> "EntitySet::new"]
  /\ ret' = RetUnit
  /\ UNCHANGED <<obj, in_users, in_chats, cacheVars, hist>>

Empty ==
  /\ obj = "EntitySet" /\ pc = "start"
  /\ map' = EntitySetEmpty
  /\ pc' = "empty"
  /\ call' = [op |-> "EntitySet::empty"]
  /\ ret' = RetUnit
  /\ UNCHANGED <<obj, in_users, in_chats, cacheVars, hist>>

Get(peer) ==
  /\ obj = "EntitySet" /\ pc \in {"built", "empty"}
  /\ ret' = RetOpt(EntitySetGet(map, peer))
  /\ map' = EntitySetAfterGet(map, peer)
  /\ call' = [op |-> "EntitySet::get", peer |-> peer]
  /\ UNCHANGED <<obj, pc, in_users, in_chats, cacheVars, hist>>

(* ------------------------ EntityCache operations ----------------------- *)
CallSelfId ==
  /\ obj = "EntityCache" /\ pc = "ready"
  /\ ret' = SelfId(self_id)
  /\ pc' = (IF SelfId(self_id).t = "panic" THEN "panicked" ELSE pc)
  /\ self_id' = AfterSelfId(self_id)
  /\ call' = [op |-> "self_id"]
  /\ UNCHANGED <<obj, setVars, users, channels, self_bot, hist>>

CallIsSelfBot ==
  /\ obj = "EntityCache" /\ pc = "ready"
  /\ ret' = IsSelfBot(self_bot)
  /\ call' = [op |-> "is_self_bot"]
  /\ UNCHANGED <<obj, pc, setVars, cacheVars, hist>>

CallContains(peer) ==
  /\ obj = "EntityCache" /\ pc = "ready"
  /\ ret' = RetBool(Contains(users, channels, peer))
  /\ call' = [op |-> "contains", peer |-> peer]
  /\ UNCHANGED <<obj, pc, setVars, cacheVars, hist>>

CallGetInput(peer) ==
  /\ obj = "EntityCache" /\ pc = "ready"
  /\ ret' = RetOpt(GetInput(users, channels, peer))
  /\ users' = AfterGetInput(users, peer)
  /\ call' = [op |-> "get_input", peer |-> peer]
  /\ UNCHANGED <<obj, pc, setVars, channels, self_id, self_bot, hist>>

(* The ingestion that fills the cache lives outside this file. *)
RecordUser(n, h) ==
  /\ obj = "EntityCache" /\ pc = "ready"
  /\ users' = Insert(users, n, h)
  /\ hist' = [hist EXCEPT !.hash = Insert(hist.hash, PeerUser(n), h)]
  /\ call' = [op |-> "record_user", id |-> n, hash |-> h]
  /\ ret' = RetUnit
  /\ UNCHANGED <<obj, pc, setVars, channels, self_id, self_bot>>

RecordChannel(n, h) ==
  /\ obj = "EntityCache" /\ pc = "ready"
  /\ channels' = Insert(channels, n, h)
  /\ hist' = [hist EXCEPT !.hash = Insert(hist.hash, PeerChannel(n), h)]
  /\ call' = [op |-> "record_channel", id |-> n, hash |-> h]
  /\ ret' = RetUnit
  /\ UNCHANGED <<obj, pc, setVars, users, self_id, self_bot>>

(* The self id is assigned once; a later attempt leaves it as it is. *)
SelfAssigned(sid, v) == IF sid.some THEN sid ELSE Some(v)

SetSelf(v, bot) ==
  /\ obj = "EntityCache" /\ pc = "ready"
  /\ self_id' = SelfAssigned(self_id, v)
  /\ self_bot' = (IF self_id.some THEN self_bot ELSE bot)
  /\ hist' = [hist EXCEPT !.self_set = TRUE]
  /\ call' = [op |-> "set_self", id |-> v, bot |-> bot]
  /\ ret' = RetUnit
  /\ UNCHANGED <<obj, pc, setVars, users, channels>>

Next ==
  \/ New
  \/ Empty
  \/ \E peer \in TlPeers : Get(peer)
  \/ CallSelfId
  \/ CallIsSelfBot
  \/ \E peer \in TlPeers : CallContains(peer)
  \/ \E peer \in TlPeers : CallGetInput(peer)
  \/ \E n \in Ids, h \in Hashes : RecordUser(n, h)
  \/ \E n \in Ids, h \in Hashes : RecordChannel(n, h)
  \/ \E v \in Ids, bot \in BOOLEAN : SetSelf(v, bot)

Spec == Init /\ [][Next]_vars

(* ====================== properties of EntitySet ======================== *)
AllRecords == in_users \o in_chats

IsReal(r) == r.tag \in {"User", "Chat", "Channel"}

(* the peer reference of a record, real or placeholder *)
RecordPeer(r) ==
  CASE r.tag \in {"User", "UserEmpty"} -> PeerUser(r.id)
    [] r.tag \in {"Chat", "ChatEmpty", "ChatForbidden"} -> PeerChat(r.id)
    [] r.tag \in {"Channel", "ChannelForbidden"} -> PeerChannel(r.id)

RecordEntity(r) == Entity(r.tag, r)

SamePeer(i, j) == RecordPeer(AllRecords[i]) = RecordPeer(AllRecords[j])

(* record i is real and no later real record has its peer *)
IsLatest(i) ==
  /\ IsReal(AllRecords[i])
  /\ \A j \in DOMAIN AllRecords :
       (j > i /\ IsReal(AllRecords[j])) => ~SamePeer(i, j)

(* placeholder record i shares its peer with no real record *)
IsLonePlaceholder(i) ==
  /\ ~IsReal(AllRecords[i])
  /\ \A j \in DOMAIN AllRecords : IsReal(AllRecords[j]) => ~SamePeer(i, j)

(* C1 as stated: after new(users, chats), get on the peer of every real
   record returns that record's entity, and get on the peer of every
   placeholder record returns None. *)
C1_AsStated ==
  pc = "built" =>
    \A i \in DOMAIN AllRecords :
      IF IsReal(AllRecords[i])
      THEN EntitySetGet(map, RecordPeer(AllRecords[i])) = Some(RecordEntity(AllRecords[i]))
      ELSE EntitySetGet(map, RecordPeer(AllRecords[i])) = None

(* C1 amended: after new(users, chats), get on the peer of a real record
   returns that record's entity when no later real record has the same peer,
   and get on the peer of a placeholder record returns None when no real
   record of the input has the same peer. *)
C1_Amended ==
  pc = "built" =>
    \A i \in DOMAIN AllRecords :
      /\ IsLatest(i) =>
           EntitySetGet(map, RecordPeer(AllRecords[i])) = Some(RecordEntity(AllRecords[i]))
      /\ IsLonePlaceholder(i) =>
           EntitySetGet(map, RecordPeer(AllRecords[i])) = None

C1_Witness ==
  /\ pc = "built"
  /\ call.op = "EntitySet::get"
  /\ \E i, j \in DOMAIN AllRecords :
       /\ IsLatest(i)
       /\ IsLonePlaceholder(j)
       /\ call.peer = RecordPeer(AllRecords[j])
       /\ ret = RetOpt(None)
       /\ EntitySetGet(map, RecordPeer(AllRecords[i])) = Some(RecordEntity(AllRecords[i]))

(* C2: when a peer key occurs more than once among the real records of one
   new() call, the snapshot is built, get on that peer returns the entity of
   the latest occurrence (users first, then chats), and the map holds one
   entry per distinct key of the real records. *)
C2_LastWriteWins ==
  pc = "built" =>
    /\ \A i, j \in DOMAIN AllRecords :
         (i < j /\ IsReal(AllRecords[i]) /\ IsLatest(j) /\ SamePeer(i, j)) =>
           /\ EntitySetGet(map, RecordPeer(AllRecords[i])) = Some(RecordEntity(AllRecords[j]))
           /\ Cardinality({k \in DOMAIN map : k = PeerFrom(RecordPeer(AllRecords[i]))}) = 1
    /\ Cardinality(DOMAIN map) =
         Cardinality({PeerFrom(RecordPeer(AllRecords[i])) :
                        i \in {x \in DOMAIN AllRecords : IsReal(AllRecords[x])}})

C2_Witness ==
  /\ pc = "built"
  /\ call.op = "EntitySet::get"
  /\ \E i, j \in DOMAIN AllRecords :
       /\ i < j /\ IsReal(AllRecords[i]) /\ IsReal(AllRecords[j]) /\ SamePeer(i, j)
       /\ AllRecords[i] # AllRecords[j]
       /\ call.peer = RecordPeer(AllRecords[i])
       /\ ret = RetOpt(Some(RecordEntity(AllRecords[j])))
       /\ Cardinality(DOMAIN map) = 1

(* ===================== properties of EntityCache ======================= *)
(* the handle get_input is to give for peer p once hash h is recorded *)
HandleFor(p, h) ==
  CASE p.peer = "User" -> InputPeerUser(p.user_id, h)
    [] p.peer = "Channel" -> InputPeerChannel(p.channel_id, h)

Recorded(p) == p \in DOMAIN hist.hash

(* C3, the step: recording a hash for User(n) in a cache with no entry for n
   leaves Channel(n) unknown to contains and get_input, and the other way
   round. *)
C3_RecordStep ==
  \A n \in Ids :
    (~ContainsKey(users, n) /\ ~ContainsKey(channels, n)) =>
      /\ (call'.op = "record_user" /\ call'.id = n /\ ContainsKey(users', n)) =>
           /\ ~Contains(users', channels', PeerChannel(n))
           /\ GetInput(users', channels', PeerChannel(n)) = None
      /\ (call'.op = "record_channel" /\ call'.id = n /\ ContainsKey(channels', n)) =>
           /\ ~Contains(users', channels', PeerUser(n))
           /\ GetInput(users', channels', PeerUser(n)) = None

(* C3, the state: with different hashes recorded for User(n) and Channel(n),
   get_input gives each peer the hash recorded for its own kind. *)
C3_OwnHash ==
  \A n \in Ids :
    (Recorded(PeerUser(n)) /\ Recorded(PeerChannel(n))
       /\ hist.hash[PeerUser(n)] # hist.hash[PeerChannel(n)]) =>
      /\ GetInput(users, channels, PeerUser(n)) =
           Some(InputPeerUser(n, hist.hash[PeerUser(n)]))
      /\ GetInput(users, channels, PeerChannel(n)) =
           Some(InputPeerChannel(n, hist.hash[PeerChannel(n)]))

(* C3: peers that differ only in kind never collide in the EntityCache. *)
C3_NoKindCollision == [][C3_RecordStep]_vars /\ []C3_OwnHash

C3_Witness ==
  /\ call.op = "get_input"
  /\ call.peer = PeerChannel(1)
  /\ ret = RetOpt(None)
  /\ Recorded(PeerUser(1))
  /\ ~Recorded(PeerChannel(1))

(* C4: once hash h is the one recorded last for User(n) or Channel(n),
   get_input on that peer returns the handle of that kind carrying exactly
   id n and hash h. *)
C4_ExactHandle ==
  /\ \A p \in DOMAIN hist.hash :
       GetInput(users, channels, p) = Some(HandleFor(p, hist.hash[p]))
  /\ (call.op = "get_input" /\ Recorded(call.peer)) =>
       ret = RetOpt(Some(HandleFor(call.peer, hist.hash[call.peer])))

C4_Witness ==
  /\ call.op = "get_input"
  /\ call.peer = PeerChannel(2)
  /\ ret = RetOpt(Some(InputPeerChannel(2, 202)))
  /\ Recorded(PeerUser(2)) /\ hist.hash[PeerUser(2)] = 101
  /\ Recorded(PeerChannel(1)) /\ hist.hash[PeerChannel(1)] = 101

(* C5: a basic group is always addressable, with the handle made of its bare
   id; a user is known to contains exactly from the first recording of a hash
   for its id on. *)
C5_ChatsAlwaysUsersOnceLearned ==
  /\ \A n \in Ids :
       /\ Contains(users, channels, PeerChat(n))
       /\ GetInput(users, channels, PeerChat(n)) = Some(InputPeerChat(n))
       /\ Contains(users, channels, PeerUser(n)) <=> Recorded(PeerUser(n))
  /\ (call.op = "contains" /\ call.peer.peer = "Chat") => ret = RetBool(TRUE)
  /\ (call.op = "contains" /\ call.peer.peer = "User") =>
       ret = RetBool(Recorded(call.peer))

C5_Witness ==
  /\ call.op = "contains"
  /\ call.peer = PeerUser(1)
  /\ ret = RetBool(TRUE)
  /\ Recorded(PeerUser(1))
  /\ ~Contains(users, channels, PeerUser(2))
  /\ Contains(users, channels, PeerChat(2))

(* C6: self_id() panics in exactly the states where the self id is not set,
   and returns the stored id in exactly the states where it is. *)
C6_SelfIdPanicsWhenUnknown ==
  /\ (~self_id.some) => SelfId(self_id) = RetPanic
  /\ self_id.some => SelfId(self_id) = RetI32(self_id.val)
  /\ call.op = "self_id" =>
       \/ (~self_id.some /\ ret = RetPanic /\ pc = "panicked")
       \/ (self_id.some /\ ret = RetI32(self_id.val) /\ pc = "ready")
  /\ pc = "panicked" => call.op = "self_id"

C6_Witness ==
  /\ pc = "panicked"
  /\ ret = RetPanic
  /\ ~hist.self_set
  /\ Recorded(PeerUser(1))

(* C7: once the self id is assigned, no later step changes it or unsets it,
   and every self_id() call returns it. *)
C7_SelfIdSetOnce ==
  /\ [][self_id.some =>
          (self_id' = self_id /\ SelfId(self_id') = RetI32(self_id.val))]_vars
  /\ []((call.op = "self_id" /\ hist.self_set) =>
          (self_id.some /\ ret = RetI32(self_id.val)))

C7_Witness ==
  /\ call.op = "set_self"
  /\ self_id.some
  /\ call.id # self_id.val

(* C8: is_self_bot() never fails, and returns false in every state where the
   flag was never set. *)
C8_IsSelfBotDefaultsFalse ==
  /\ IsSelfBot(self_bot).t = "bool"
  /\ (~hist.self_set) => IsSelfBot(self_bot) = RetBool(FALSE)
  /\ call.op = "is_self_bot" =>
       /\ ret.t = "bool"
       /\ pc = "ready"
       /\ (~hist.self_set) => ret = RetBool(FALSE)

C8_Witness ==
  /\ call.op = "is_self_bot"
  /\ ret = RetBool(FALSE)
  /\ ~hist.self_set
  /\ ~self_id.some
  /\ Recorded(PeerChannel(1))

IsQuery(c, r) ==
  \/ c.op \in {"contains", "get_input", "is_self_bot", "EntitySet::get"}
  \/ (c.op = "self_id" /\ r.t = "i32")

(* C9: contains, get_input, is_self_bot, a successful self_id and
   EntitySet::get change neither the cache's fields nor the snapshot's map,
   and a query repeated in the same state gives the same result. *)
C9_QueriesArePure ==
  [][IsQuery(call', ret') =>
       /\ UNCHANGED <<users, channels, self_id, self_bot, map>>
       /\ (call' = call => ret' = ret)]_vars

C9_Witness ==
  /\ call.op = "get_input"
  /\ call.peer = PeerUser(1)
  /\ ret = RetOpt(None)
  /\ Recorded(PeerUser(2))

(* C10: contains(p) holds exactly when get_input(p) is Some, for every peer;
   an id with no recorded hash gives false and None, not a failure. *)
C10_ContainsIffGetInput ==
  /\ \A p \in TlPeers :
       Contains(users, channels, p) <=> GetInput(users, channels, p).some
  /\ \A p \in TlPeers :
       (p.peer # "Chat" /\ ~Recorded(p)) =>
         (~Contains(users, channels, p) /\ GetInput(users, channels, p) = None)
  /\ call.op \in {"contains", "get_input"} => pc = "ready"

C10_Witness ==
  /\ call.op = "contains"
  /\ call.peer = PeerChannel(1)
  /\ ret = RetBool(FALSE)
  /\ GetInput(users, channels, PeerChannel(1)) = None
  /\ Contains(users, channels, PeerUser(1))

====
